---- MODULE Spec2Model ----
(***************************************************************************)
(* Model of odeza-core: the ECS World (crates/odeza-core/src/ecs.rs) and   *)
(* the JobSystem / TaskGraphBuilder (crates/odeza-core/src/job.rs).        *)
(*                                                                         *)
(* Rust indices are 0-based; TLA+ sequences are 1-based, so Vec element i  *)
(* is sequence element i + 1.  Option<T> is a sequence of length 0 (None)  *)
(* or 1 (Some).                                                            *)
(***************************************************************************)
EXTENDS Integers, Sequences, FiniteSets, TLC

VARIABLES
    \* ---- World (ecs.rs:159-174)
    entities,             \* Vec<EntityMeta>
    free_indices,         \* Vec<u32>
    next_index,           \* AtomicU32
    archetypes,           \* Vec<Archetype>
    archetype_map,        \* AHashMap<SmallVec<[TypeId; 8]>, ArchetypeId>
    next_archetype_id,    \* u32
    entity_archetype_row, \* AHashMap<Entity, usize>
    overflow_checks,      \* build profile: does `+= 1` on u32 panic (debug) or wrap (release)
    despawned,            \* history: Entity values for which despawn returned true
    last                  \* history: the last World call, its result, the Entity spawn returned

worldVars == <<entities, free_indices, next_index, archetypes, archetype_map,
               next_archetype_id, entity_archetype_row, overflow_checks,
               despawned, last>>

VARIABLES
    \* ---- JobSystem (job.rs:98-115) and the jobs submitted to it
    job_counter,   \* AtomicUsize: the next job id
    jobs,          \* the JobWrapper made for job id i is jobs[i + 1] (job.rs:84-89)
    completed,     \* the Arc<AtomicBool> completion flag of job id i is completed[i + 1]
    global_queue,  \* Injector<JobWrapper>, as the ids of the queued wrappers, front first
    \* ---- the threads calling into the JobSystem
    pc,            \* where each thread is in process_jobs / wait_for / wait_all
    frame,         \* each thread's locals: caller, handle, max_jobs, processed, wrapper,
                   \*   and (history) the bodies the current process_jobs call ran to their end
    aborted,       \* history: the threads out of whose call a job's panic unwound
    log,           \* history: the ids of the jobs whose body ran, in the order they ran
    failed,        \* history: the ids of the jobs whose body panicked
    \* ---- TaskGraphBuilder (job.rs:279-281)
    tasks,         \* Vec<(Box<dyn Job>, JobPriority, Vec<usize>)>
    graph          \* history: the task list execute consumed, the handles it returned,
                   \*          and the last call made on the builder with what it returned

jobVars == <<job_counter, jobs, completed, global_queue, pc, frame, aborted, log, failed,
             tasks, graph>>

VARIABLES
    \* ---- SceneGraph (scene.rs:196-201)
    nodes,         \* HashMap<Entity, Node>, of each Node its parent and its children
    roots          \* Vec<Entity>

sceneVars == <<nodes, roots>>

VARIABLES
    \* ---- FrameAllocator (memory.rs:103-112) and the threads calling alloc
    offset,        \* AtomicUsize: current offset into the block
    alloc_pc,      \* where each thread is in alloc
    alloc_frame,   \* each thread's locals: size, align, current_offset
    grants,        \* history: the ranges alloc returned since the last reset, in CAS order
    returned       \* history: what each thread's last alloc call ended with

memVars == <<offset, alloc_pc, alloc_frame, grants, returned>>

vars == <<worldVars, jobVars, sceneVars, memVars>>

----------------------------------------------------------------------------
\* Sizes of the World model

\* width of Entity.index / next_index (u32 in the source)
IndexBits == 2
\* width of Entity.generation / EntityMeta.generation (u32 in the source)
GenBits == 2
\* entity records plus archetype rows the model allocates (the code removes neither)
MaxAlloc == 3
\* component values
NumValues == 2

IndexMod == 2 ^ IndexBits
GenMod == 2 ^ GenBits

\* the component types T of add_component::<T> (TypeId::of::<T>())
Types == {"A", "B", "C"}
Values == 1 .. NumValues

\* Entity { index, generation } (ecs.rs:23-28)
Entity(i, g) == [index |-> i, generation |-> g]
EntityValues == [index : 0 .. IndexMod - 1, generation : 0 .. GenMod - 1]

\* Entity::null(): index u32::MAX, generation 0 (ecs.rs:47-52)
null == Entity(IndexMod - 1, 0)

\* Entity::is_null (ecs.rs:55-57)
is_null(e) == e.index = IndexMod - 1

None == << >>
Some(x) == << x >>

----------------------------------------------------------------------------
\* Vec / map helpers

\* Vec::pop: the vector without its last element
PopBack(s) == SubSeq(s, 1, Len(s) - 1)

\* Vec::swap_remove(i) (0-based i): the last element takes the place of element i
SwapRemove(s, i) ==
    IF i + 1 = Len(s) THEN PopBack(s)
    ELSE [k \in 1 .. Len(s) - 1 |-> IF k = i + 1 THEN s[Len(s)] ELSE s[k]]

\* an insert that is lost (a faulty variant)
MapInsert_dropped(m, k, v) == m

\* AHashMap::insert
MapInsert(m, k, v) == [x \in DOMAIN m \cup {k} |-> IF x = k THEN v ELSE m[x]]

\* AHashMap::remove
MapRemove(m, k) == [x \in DOMAIN m \ {k} |-> m[x]]

EmptyMap == [x \in {} |-> 0]

----------------------------------------------------------------------------
\* World: read-only operations

\* is_alive without the test of the record's alive flag (a faulty variant)
is_alive_ignores_flag(e) ==
    /\ e.index < Len(entities)
    /\ entities[e.index + 1].generation = e.generation

\* World::is_alive (ecs.rs:230-234)
is_alive(e) ==
    /\ e.index < Len(entities)
    /\ entities[e.index + 1].alive
    /\ entities[e.index + 1].generation = e.generation

\* entity_count counting every record, alive or not (a faulty variant)
entity_count_records == Len(entities)

\* World::entity_count (ecs.rs:237-239)
entity_count == Cardinality({i \in 1 .. Len(entities) : entities[i].alive})

\* contains_type answering true for every type (a faulty variant)
contains_type_any(arch, T) == TRUE

\* Archetype::contains_type (ecs.rs:153-155)
contains_type(arch, T) == \E k \in 1 .. Len(arch.component_types) : arch.component_types[k] = T

\* storage_get reading the first row of the column whatever the row asked for
\* (a faulty variant)
storage_get_first(col, row) == IF row < Len(col) THEN Some(col[1]) ELSE None

\* TypedStorage::get (ecs.rs:103-105): Vec::get, None when the row is out of range
storage_get(col, row) == IF row < Len(col) THEN Some(col[row + 1]) ELSE None

\* get_component finding the row by the index of its member, whatever the
\* member's generation (a faulty variant)
get_component_of_index(e, T) ==
    LET found == {kr \in (1 .. Len(archetypes)) \X (1 .. MaxAlloc) :
                     /\ kr[2] <= Len(archetypes[kr[1]].entities)
                     /\ archetypes[kr[1]].entities[kr[2]].index = e.index
                     /\ T \in DOMAIN archetypes[kr[1]].storages}
    IN  IF ~is_alive(e) \/ found = {} THEN None
        ELSE LET kr == CHOOSE x \in found : TRUE
             IN  Some(archetypes[kr[1]].storages[T][kr[2]])

\* get_component reading the row numbered like the entity's index instead of
\* the row mapped for the entity (a faulty variant)
get_component_row_of_index(e, T) ==
    IF ~is_alive(e) THEN None
    ELSE IF entities[e.index + 1].archetype_id = None THEN None
    ELSE LET archetype == archetypes[entities[e.index + 1].archetype_id[1] + 1]
         IN  IF T \notin DOMAIN archetype.storages THEN None
             ELSE storage_get(archetype.storages[T], e.index)

\* World::get_component (ecs.rs:277-291)
get_component(e, T) ==
    IF ~is_alive(e) THEN None
    ELSE IF entities[e.index + 1].archetype_id = None THEN None
    ELSE IF e \notin DOMAIN entity_archetype_row THEN None
    ELSE LET archetype == archetypes[entities[e.index + 1].archetype_id[1] + 1]
             row == entity_archetype_row[e]
         IN  IF T \notin DOMAIN archetype.storages THEN None
             ELSE storage_get(archetype.storages[T], row)

\* has_component looking at the record of the index whatever the generation and
\* the alive flag (a faulty variant)
has_component_of_index(e, T) ==
    IF e.index >= Len(entities) THEN FALSE
    ELSE IF entities[e.index + 1].archetype_id = None THEN FALSE
    ELSE contains_type(archetypes[entities[e.index + 1].archetype_id[1] + 1], T)

\* World::has_component (ecs.rs:311-322)
has_component(e, T) ==
    IF ~is_alive(e) THEN FALSE
    ELSE IF entities[e.index + 1].archetype_id = None THEN FALSE
    ELSE contains_type(archetypes[entities[e.index + 1].archetype_id[1] + 1], T)

\* number of rows held by all component columns together
TotalRows ==
    LET RECURSIVE Sum(_)
        Sum(k) == IF k = 0 THEN 0 ELSE Len(archetypes[k].entities) + Sum(k - 1)
    IN  Sum(Len(archetypes))

Call(op, e, ok) == [op |-> op, e |-> e, ok |-> ok]

----------------------------------------------------------------------------
\* World: construction and operations

\* World::new (ecs.rs:178-188)
WorldInit ==
    /\ entities = << >>
    /\ free_indices = << >>
    /\ next_index = 0
    /\ archetypes = << >>
    /\ archetype_map = EmptyMap
    /\ next_archetype_id = 0
    /\ entity_archetype_row = EmptyMap
    /\ overflow_checks \in BOOLEAN
    /\ despawned = {}
    /\ last = Call("new", null, TRUE)

\* World::spawn, recycled index, `meta.generation += 1` in range or wrapping (ecs.rs:192-197)
spawn_recycle ==
    /\ free_indices # << >>
    /\ LET index == free_indices[Len(free_indices)]
           meta == entities[index + 1]
           generation == (meta.generation + 1) % GenMod
       IN  /\ (meta.generation + 1 < GenMod \/ ~overflow_checks)
           /\ free_indices' = PopBack(free_indices)
           /\ entities' = [entities EXCEPT ![index + 1] =
                              [generation |-> generation, alive |-> TRUE, archetype_id |-> None]]
           /\ last' = Call("spawn", Entity(index, generation), TRUE)
    /\ UNCHANGED <<next_index, archetypes, archetype_map, next_archetype_id,
                   entity_archetype_row, overflow_checks, despawned>>

\* World::spawn, recycled index, `meta.generation += 1` overflows with overflow
\* checks on: the call panics after free_indices.pop() (ecs.rs:192-194)
spawn_overflow_panic ==
    /\ free_indices # << >>
    /\ LET index == free_indices[Len(free_indices)]
           meta == entities[index + 1]
       IN  /\ meta.generation + 1 >= GenMod
           /\ overflow_checks
           /\ free_indices' = PopBack(free_indices)
           /\ last' = Call("spawn", Entity(index, meta.generation), FALSE)
    /\ UNCHANGED <<entities, next_index, archetypes, archetype_map, next_archetype_id,
                   entity_archetype_row, overflow_checks, despawned>>

\* World::spawn, fresh index (ecs.rs:198-206), in a model that allocates up to
\* `limit` entity records and archetype rows
spawn_fresh_within(limit) ==
    /\ free_indices = << >>
    /\ Len(entities) + TotalRows < limit
    /\ LET index == next_index
       IN  /\ next_index' = (next_index + 1) % IndexMod
           /\ entities' = Append(entities,
                              [generation |-> 0, alive |-> TRUE, archetype_id |-> None])
           /\ last' = Call("spawn", Entity(index, 0), TRUE)
    /\ UNCHANGED <<free_indices, archetypes, archetype_map, next_archetype_id,
                   entity_archetype_row, overflow_checks, despawned>>

spawn_fresh == spawn_fresh_within(MaxAlloc)

\* World::spawn (ecs.rs:191-209)
spawn == spawn_recycle \/ spawn_overflow_panic \/ spawn_fresh

\* despawn taking the entity out of the member list and leaving its column
\* values behind (a faulty variant)
despawn_detach_members_only(e, archetype_id) ==
    [archetypes EXCEPT ![archetype_id + 1].entities = SwapRemove(@, entity_archetype_row[e])]

\* World::despawn: what happens to the entity's archetype row (ecs.rs:220-223).
\* Only the row mapping is removed; the archetype's member list and columns are
\* left as they are.
despawn_detach(e, archetype_id) == archetypes

\* World::despawn (ecs.rs:212-227)
despawn(e) ==
    IF ~is_alive(e)
    THEN /\ last' = Call("despawn", null, FALSE)
         /\ UNCHANGED <<entities, free_indices, next_index, archetypes, archetype_map,
                        next_archetype_id, entity_archetype_row, overflow_checks, despawned>>
    ELSE LET meta == entities[e.index + 1]
         IN  /\ entities' = [entities EXCEPT ![e.index + 1] =
                                [meta EXCEPT !.alive = FALSE, !.archetype_id = None]]
             /\ IF meta.archetype_id # None
                THEN /\ entity_archetype_row' = MapRemove(entity_archetype_row, e)
                     /\ archetypes' = despawn_detach(e, meta.archetype_id[1])
                ELSE UNCHANGED <<entity_archetype_row, archetypes>>
             /\ free_indices' = Append(free_indices, e.index)
             /\ despawned' = despawned \cup {e}
             /\ last' = Call("despawn", null, TRUE)
             /\ UNCHANGED <<next_index, archetype_map, next_archetype_id, overflow_checks>>

\* the component-type set add_component::<T> homes the entity into
\* (ecs.rs:325-326): the single type T, whatever the entity holds already
archetype_types(e, T) == << T >>

\* World::get_or_create_archetype_for_component: the id it returns (ecs.rs:324-340)
archetype_for(types) ==
    IF types \in DOMAIN archetype_map THEN archetype_map[types] ELSE next_archetype_id

\* World::add_component (ecs.rs:242-274), with get_or_create_archetype_for_component
\* (ecs.rs:324-340)
add_component(e, T, v) ==
    IF ~is_alive(e)
    THEN /\ last' = Call("add_component", null, FALSE)
         /\ UNCHANGED <<entities, free_indices, next_index, archetypes, archetype_map,
                        next_archetype_id, entity_archetype_row, overflow_checks, despawned>>
    ELSE LET types == archetype_types(e, T)
             created == types \notin DOMAIN archetype_map
             archetype_id == archetype_for(types)
             all == IF created
                    THEN Append(archetypes, [id |-> archetype_id, component_types |-> types,
                                             storages |-> EmptyMap, entities |-> << >>])
                    ELSE archetypes
             archetype == all[archetype_id + 1]
             column == IF T \in DOMAIN archetype.storages THEN archetype.storages[T] ELSE << >>
             row == Len(archetype.entities)
         IN  /\ Len(entities) + TotalRows < MaxAlloc
             /\ archetype_map' = IF created THEN MapInsert(archetype_map, types, archetype_id)
                                 ELSE archetype_map
             /\ next_archetype_id' = IF created THEN next_archetype_id + 1
                                     ELSE next_archetype_id
             /\ archetypes' = [all EXCEPT ![archetype_id + 1] =
                                  [archetype EXCEPT
                                      !.storages = MapInsert(archetype.storages, T,
                                                             Append(column, v)),
                                      !.entities = Append(archetype.entities, e)]]
             /\ entity_archetype_row' = MapInsert(entity_archetype_row, e, row)
             /\ entities' = [entities EXCEPT ![e.index + 1].archetype_id = Some(archetype_id)]
             /\ last' = Call("add_component", null, TRUE)
             /\ UNCHANGED <<free_indices, next_index, overflow_checks, despawned>>

\* World::get_component_mut followed by a write of v through the returned
\* reference (ecs.rs:294-308, as in tests::test_component_mutation, ecs.rs:422-424)
get_component_mut(e, T, v) ==
    IF get_component(e, T) = None
    THEN /\ last' = Call("get_component_mut", null, FALSE)
         /\ UNCHANGED <<entities, free_indices, next_index, archetypes, archetype_map,
                        next_archetype_id, entity_archetype_row, overflow_checks, despawned>>
    ELSE LET archetype_id == entities[e.index + 1].archetype_id[1]
             row == entity_archetype_row[e]
         IN  /\ archetypes' = [archetypes EXCEPT
                                  ![archetype_id + 1].storages[T][row + 1] = v]
             /\ last' = Call("get_component_mut", null, TRUE)
             /\ UNCHANGED <<entities, free_indices, next_index, archetype_map,
                            next_archetype_id, entity_archetype_row, overflow_checks,
                            despawned>>

\* the Entity values callers pass: for every allocated index the value spawn
\* returned last on it (alive, or despawned since) and the value one generation
\* behind it (stale, or made with Entity::new), and the null entity
EntityArgs ==
    {null}
    \cup {Entity(i - 1, entities[i].generation) : i \in 1 .. Len(entities)}
    \cup {Entity(i - 1, (entities[i].generation + GenMod - 1) % GenMod) : i \in 1 .. Len(entities)}

----------------------------------------------------------------------------
\* JobSystem

\* threads, jobs and builder edges the model allows
NumThreads == 2
MaxJobs == 2
MaxEdges == 2

\* JobPriority (job.rs:18-27)
Low == 0
Normal == 1
High == 2
Critical == 3
JobPriority == {Low, Normal, High, Critical}

\* the priorities callers pass
PriorityArgs == {Normal, High}

\* max_jobs of the process_jobs(16) call in wait_all (job.rs:248)
WaitAllBatch == 16

Threads == 1 .. NumThreads

\* the ids of the submitted jobs, i.e. the JobHandles that exist
Handles == 0 .. job_counter - 1

\* is_complete answering true for every handle (a faulty variant)
is_complete_always(h) == TRUE

\* JobHandle::is_complete (job.rs:44-46)
is_complete(h) == completed[h + 1]

\* can_execute with the test of the dependencies left out (a faulty variant)
can_execute_always(j) == TRUE

\* can_execute true only for a wrapper that has no dependency (a faulty variant)
can_execute_without_deps(j) == jobs[j + 1].dependencies = {}

\* a JobHandle of a job that was submitted to another JobSystem and is never
\* run there (job.rs:37-41): its flag is the flag of no job of this JobSystem
\* and stays false
foreign == MaxJobs

\* JobWrapper::can_execute (job.rs:92-94)
can_execute(j) == \A dep \in jobs[j + 1].dependencies : dep \in Handles /\ completed[dep + 1]

\* push to the front of the queue (a faulty variant)
push_front(queue, j) == <<j>> \o queue

\* Injector::push (job.rs:168, 206, 224): to the back
push(queue, j) == Append(queue, j)

\* steal_rest leaving the stolen wrapper in the queue (a faulty variant)
steal_rest_keeps_head(queue) == queue

\* Injector::steal, Steal::Success (job.rs:216-217): what is left in the queue
steal_rest(queue) == Tail(queue)

\* a completion flag created set (a faulty variant)
new_flag_set == TRUE

\* the completion flag of a new job, Arc::new(AtomicBool::new(false)) (job.rs:159, 195)
new_flag == FALSE

\* a thread's locals outside any call
NoFrame == [caller |-> "none", handle |-> 0, max_jobs |-> 0, processed |-> 0, wrapper |-> None,
            ran |-> 0]

\* JobWrapper { job, priority, completed, dependencies } (job.rs:84-89); `panics`
\* says whether job.execute() panics, and `ready` (history) what can_execute()
\* gives when the wrapper is made: no dependency, or every dependency complete
JobWrapper(priority, dependencies, panics) ==
    [priority |-> priority, dependencies |-> dependencies, panics |-> panics,
     ready |-> \A dep \in dependencies : dep \in Handles /\ completed[dep + 1]]

\* a call on the TaskGraphBuilder: were its task indices those of tasks already
\* added, did it change the builder, and what did it return
BuilderCall(op, in_range, ret) == [op |-> op, in_range |-> in_range, ret |-> ret]

\* JobSystem::new (job.rs:119-149), TaskGraphBuilder::new (job.rs:285-287); no
\* worker thread is spawned (job.rs:134-137)
JobInit ==
    /\ job_counter = 0
    /\ jobs = << >>
    /\ completed = << >>
    /\ global_queue = << >>
    /\ pc = [t \in Threads |-> "idle"]
    /\ frame = [t \in Threads |-> NoFrame]
    /\ aborted = {}
    /\ log = << >>
    /\ failed = {}
    /\ tasks = << >>
    /\ graph = [tasks |-> << >>, handles |-> << >>, executed |-> FALSE,
                call |-> BuilderCall("new", TRUE, "Self")]

\* JobSystem::submit (job.rs:157-177)
submit(t, priority, panics) ==
    /\ pc[t] = "idle"
    /\ job_counter < MaxJobs
    /\ job_counter' = job_counter + 1
    /\ jobs' = Append(jobs, JobWrapper(priority, {}, panics))
    /\ completed' = Append(completed, new_flag)
    /\ global_queue' = push(global_queue, job_counter)
    /\ UNCHANGED <<pc, frame, aborted, log, failed, tasks, graph>>

\* JobSystem::submit_with_deps (job.rs:188-209)
submit_with_deps(t, priority, dependencies, panics) ==
    /\ pc[t] = "idle"
    /\ job_counter < MaxJobs
    /\ job_counter' = job_counter + 1
    /\ jobs' = Append(jobs, JobWrapper(priority, dependencies, panics))
    /\ completed' = Append(completed, new_flag)
    /\ global_queue' = push(global_queue, job_counter)
    /\ UNCHANGED <<pc, frame, aborted, log, failed, tasks, graph>>

\* JobSystem::pending_jobs (job.rs:254-257)
pending_jobs == job_counter

\* a call of JobSystem::process_jobs(max_jobs) (job.rs:212-213)
call_process_jobs(t, max_jobs) ==
    /\ pc[t] = "idle"
    /\ pc' = [pc EXCEPT ![t] = "pj_loop"]
    /\ frame' = [frame EXCEPT ![t] = [NoFrame EXCEPT !.caller = "process_jobs",
                                                     !.max_jobs = max_jobs]]
    /\ UNCHANGED <<job_counter, jobs, completed, global_queue, aborted, log, failed, tasks, graph>>

\* a call of JobSystem::wait_for(handle) (job.rs:236)
call_wait_for(t, handle) ==
    /\ pc[t] = "idle"
    /\ pc' = [pc EXCEPT ![t] = "wf_loop"]
    /\ frame' = [frame EXCEPT ![t] = [NoFrame EXCEPT !.caller = "wait_for",
                                                     !.handle = handle]]
    /\ UNCHANGED <<job_counter, jobs, completed, global_queue, aborted, log, failed, tasks, graph>>

\* a call of JobSystem::wait_all() (job.rs:246)
call_wait_all(t) ==
    /\ pc[t] = "idle"
    /\ pc' = [pc EXCEPT ![t] = "wa_loop"]
    /\ frame' = [frame EXCEPT ![t] = [NoFrame EXCEPT !.caller = "wait_all"]]
    /\ UNCHANGED <<job_counter, jobs, completed, global_queue, aborted, log, failed, tasks, graph>>

\* JobSystem::wait_for, the loop test and the process_jobs(1) call (job.rs:237-242)
wait_for_loop(t) ==
    /\ pc[t] = "wf_loop"
    /\ IF is_complete(frame[t].handle)
       THEN /\ pc' = [pc EXCEPT ![t] = "idle"]
            /\ frame' = [frame EXCEPT ![t] = NoFrame]
       ELSE /\ pc' = [pc EXCEPT ![t] = "pj_loop"]
            /\ frame' = [frame EXCEPT ![t].max_jobs = 1, ![t].processed = 0,
                                      ![t].ran = 0]
    /\ UNCHANGED <<job_counter, jobs, completed, global_queue, aborted, log, failed, tasks, graph>>

\* JobSystem::wait_all, the loop test and the process_jobs(16) call (job.rs:247-250)
wait_all_loop(t) ==
    /\ pc[t] = "wa_loop"
    /\ IF global_queue = << >>
       THEN /\ pc' = [pc EXCEPT ![t] = "idle"]
            /\ frame' = [frame EXCEPT ![t] = NoFrame]
       ELSE /\ pc' = [pc EXCEPT ![t] = "pj_loop"]
            /\ frame' = [frame EXCEPT ![t].max_jobs = WaitAllBatch, ![t].processed = 0,
                                      ![t].ran = 0]
    /\ UNCHANGED <<job_counter, jobs, completed, global_queue, aborted, log, failed, tasks, graph>>

\* JobSystem::process_jobs returns `processed` to its caller (job.rs:215, 227, 232)
process_jobs_return(t) ==
    /\ pc' = [pc EXCEPT ![t] = CASE frame[t].caller = "wait_for" -> "wf_loop"
                                 [] frame[t].caller = "wait_all" -> "wa_loop"
                                 [] OTHER -> "idle"]
    /\ frame' = IF frame[t].caller = "process_jobs" THEN [frame EXCEPT ![t] = NoFrame]
                 ELSE frame

\* JobSystem::process_jobs, the loop test and global_queue.steal() (job.rs:215-217, 227)
process_jobs_steal(t) ==
    /\ pc[t] = "pj_loop"
    /\ IF frame[t].processed < frame[t].max_jobs /\ global_queue # << >>
       THEN /\ global_queue' = steal_rest(global_queue)
            /\ frame' = [frame EXCEPT ![t].wrapper = Some(Head(global_queue))]
            /\ pc' = [pc EXCEPT ![t] = "pj_check"]
       ELSE /\ process_jobs_return(t)
            /\ UNCHANGED global_queue
    /\ UNCHANGED <<job_counter, jobs, completed, aborted, log, failed, tasks, graph>>

\* JobSystem::process_jobs, `if wrapper.can_execute()` and the re-queue (job.rs:218-225)
process_jobs_check(t) ==
    /\ pc[t] = "pj_check"
    /\ IF can_execute(frame[t].wrapper[1])
       THEN /\ pc' = [pc EXCEPT ![t] = "pj_execute"]
            /\ UNCHANGED <<global_queue, frame>>
       ELSE /\ global_queue' = push(global_queue, frame[t].wrapper[1])
            /\ frame' = [frame EXCEPT ![t].wrapper = None]
            /\ pc' = [pc EXCEPT ![t] = "pj_loop"]
    /\ UNCHANGED <<job_counter, jobs, completed, aborted, log, failed, tasks, graph>>

\* JobSystem::process_jobs, wrapper.job.execute() (job.rs:219): the body runs to its
\* end, or it panics and the panic unwinds out of process_jobs and of the
\* wait_for / wait_all that called it, dropping the wrapper
process_jobs_execute(t) ==
    /\ pc[t] = "pj_execute"
    /\ LET j == frame[t].wrapper[1]
       IN  IF jobs[j + 1].panics
           THEN /\ failed' = failed \cup {j}
                /\ pc' = [pc EXCEPT ![t] = "idle"]
                /\ frame' = [frame EXCEPT ![t] = NoFrame]
                /\ aborted' = aborted \cup {t}
                /\ UNCHANGED log
           ELSE /\ log' = Append(log, j)
                /\ pc' = [pc EXCEPT ![t] = "pj_store"]
                /\ frame' = [frame EXCEPT ![t].ran = @ + 1]
                /\ UNCHANGED <<failed, aborted>>
    /\ UNCHANGED <<job_counter, jobs, completed, global_queue, tasks, graph>>

\* JobSystem::process_jobs, wrapper.completed.store(true) and processed += 1
\* (job.rs:220-221)
process_jobs_store(t) ==
    /\ pc[t] = "pj_store"
    /\ completed' = [completed EXCEPT ![frame[t].wrapper[1] + 1] = TRUE]
    /\ frame' = [frame EXCEPT ![t].processed = @ + 1, ![t].wrapper = None]
    /\ pc' = [pc EXCEPT ![t] = "pj_loop"]
    /\ UNCHANGED <<job_counter, jobs, global_queue, aborted, log, failed, tasks, graph>>

----------------------------------------------------------------------------
\* TaskGraphBuilder

\* the index taken after the push instead of before it (a faulty variant)
task_index_after_push == Len(tasks) + 1

\* TaskGraphBuilder::add_task, `let index = self.tasks.len()` (job.rs:291)
task_index == Len(tasks)

\* TaskGraphBuilder::add_task (job.rs:290-294); `index` (history) is the value
\* the call returned for the task
add_task(priority, panics) ==
    /\ ~graph.executed
    /\ Len(tasks) < MaxJobs
    /\ tasks' = Append(tasks, [priority |-> priority, deps |-> << >>, panics |-> panics,
                               index |-> task_index])
    /\ graph' = [graph EXCEPT !.call = BuilderCall("add_task", TRUE, "usize")]
    /\ UNCHANGED <<job_counter, jobs, completed, global_queue, pc, frame, aborted, log,
                   failed>>

\* the number of dependency indices the builder holds
EdgeCount ==
    LET RECURSIVE Sum(_)
        Sum(k) == IF k = 0 THEN 0 ELSE Len(tasks[k].deps) + Sum(k - 1)
    IN  Sum(Len(tasks))

\* TaskGraphBuilder::add_dependency (job.rs:297-301)
add_dependency(task, depends_on) ==
    /\ ~graph.executed
    /\ EdgeCount < MaxEdges
    /\ IF task < Len(tasks) /\ depends_on < Len(tasks)
       THEN tasks' = [tasks EXCEPT ![task + 1].deps = Append(@, depends_on)]
       ELSE UNCHANGED tasks
    /\ graph' = [graph EXCEPT !.call =
                    BuilderCall("add_dependency",
                                task < Len(tasks) /\ depends_on < Len(tasks), "()")]
    /\ UNCHANGED <<job_counter, jobs, completed, global_queue, pc, frame, aborted, log,
                   failed>>

\* dep_handles keeping the edges to tasks that have no handle yet (a faulty variant)
dep_handles_unfiltered(deps, i, first) == {first + deps[k] : k \in 1 .. Len(deps)}

\* TaskGraphBuilder::execute, `deps.iter().filter_map(|&idx| handles.get(idx))`
\* (job.rs:313-315) for the task at position i, when handles holds the i handles
\* of the tasks before it: handles[idx] is the job id first + idx
dep_handles(deps, i, first) ==
    {first + deps[k] : k \in {n \in 1 .. Len(deps) : deps[n] < i}}

\* TaskGraphBuilder::execute (job.rs:304-326): the tasks are submitted in list
\* order, task i as job id job_counter + i
execute(t) ==
    /\ pc[t] = "idle"
    /\ ~graph.executed
    /\ tasks # << >>
    /\ job_counter + Len(tasks) <= MaxJobs
    /\ LET first == job_counter
           n == Len(tasks)
           wrappers == [i \in 1 .. n |->
                           JobWrapper(tasks[i].priority,
                                      dep_handles(tasks[i].deps, i - 1, first),
                                      tasks[i].panics)]
           handles == [i \in 1 .. n |-> first + i - 1]
       IN  /\ job_counter' = job_counter + n
           /\ jobs' = jobs \o wrappers
           /\ completed' = completed \o [i \in 1 .. n |-> new_flag]
           /\ global_queue' = global_queue \o handles
           /\ graph' = [tasks |-> tasks, handles |-> handles, executed |-> TRUE,
                        call |-> BuilderCall("execute", TRUE, "Vec<JobHandle>")]
           /\ tasks' = << >>
    /\ UNCHANGED <<pc, frame, aborted, log, failed>>

----------------------------------------------------------------------------
\* SceneGraph

\* entities given a node, and entries of `roots` the model allows add_node to
\* build up
NumNodes == 2
MaxRoots == 3

\* the Entity values callers pass to the SceneGraph (Entity::new(i, 0), as in
\* tests::test_scene_graph_parenting, scene.rs:462-464)
SceneEntities == {Entity(i, 0) : i \in 0 .. NumNodes - 1}

\* Node::new (scene.rs:147-160): no parent, no children
NewNode == [parent |-> None, children |-> << >>]

\* Vec::contains
Contains(s, x) == \E k \in 1 .. Len(s) : s[k] = x

\* Vec::retain(|e| e != x)
RetainNot(s, x) == SelectSeq(s, LAMBDA y : y # x)

\* Node::add_child (scene.rs:183-187)
add_child(children, child) ==
    IF Contains(children, child) THEN children ELSE Append(children, child)

\* Node::remove_child (scene.rs:190-192)
remove_child(children, child) == RetainNot(children, child)

\* SceneGraph::new (scene.rs:205-210)
SceneInit ==
    /\ nodes = EmptyMap
    /\ roots = << >>

\* SceneGraph::add_node (scene.rs:213-218)
add_node(entity) ==
    /\ Len(roots) < MaxRoots
    /\ nodes' = MapInsert(nodes, entity, NewNode)
    /\ roots' = Append(roots, entity)

\* SceneGraph::remove_node (scene.rs:221-245)
remove_node(entity) ==
    IF entity \notin DOMAIN nodes
    THEN UNCHANGED <<nodes, roots>>
    ELSE LET node == nodes[entity]
             removed == MapRemove(nodes, entity)
             detached == IF node.parent # None /\ node.parent[1] \in DOMAIN removed
                         THEN [removed EXCEPT ![node.parent[1]].children =
                                                  remove_child(@, entity)]
                         ELSE removed
             orphans == SelectSeq(node.children, LAMBDA child : child \in DOMAIN detached)
         IN  /\ nodes' = [e \in DOMAIN detached |->
                             IF Contains(orphans, e) THEN [detached[e] EXCEPT !.parent = None]
                             ELSE detached[e]]
             /\ roots' = RetainNot(roots, entity) \o orphans

\* SceneGraph::set_parent (scene.rs:258-288)
set_parent(child, parent) ==
    LET unlinked == IF /\ child \in DOMAIN nodes
                       /\ nodes[child].parent # None
                       /\ nodes[child].parent[1] \in DOMAIN nodes
                    THEN [nodes EXCEPT ![nodes[child].parent[1]].children =
                                           remove_child(@, child)]
                    ELSE nodes
        linked == IF parent # None /\ parent[1] \in DOMAIN unlinked
                  THEN [unlinked EXCEPT ![parent[1]].children = add_child(@, child)]
                  ELSE unlinked
    IN  /\ roots' = IF parent # None THEN RetainNot(roots, child)
                    ELSE IF Contains(roots, child) THEN roots
                    ELSE Append(roots, child)
        /\ nodes' = IF child \in DOMAIN linked
                    THEN [linked EXCEPT ![child].parent = parent]
                    ELSE linked

----------------------------------------------------------------------------
\* FrameAllocator

\* width of usize, capacity of the block, and ranges granted between two resets
UsizeBits == 4
capacity == 6
MaxGrants == 2

UsizeMod == 2 ^ UsizeBits

\* the sizes and alignments callers pass to alloc
SizeArgs == {1, 2, UsizeMod - 1}
AlignArgs == {0, 2}

\* x & !m on `bits` bits
RECURSIVE and_not(_, _, _)
and_not(x, m, bits) ==
    IF bits = 0 THEN 0
    ELSE (IF x % 2 = 1 /\ m % 2 = 0 THEN 1 ELSE 0) + 2 * and_not(x \div 2, m \div 2, bits - 1)

\* `(current_offset + align - 1) & !(align - 1)` (memory.rs:139), wrapping
aligned_offset(current_offset, align) ==
    and_not((current_offset + align - 1) % UsizeMod, align - 1, UsizeBits)

\* `aligned_offset + size` (memory.rs:140), wrapping
new_offset(current_offset, align, size) ==
    (aligned_offset(current_offset, align) + size) % UsizeMod

\* does one of the two additions (memory.rs:139-140) leave the range of usize
overflows(current_offset, align, size) ==
    \/ current_offset + align >= UsizeMod
    \/ aligned_offset(current_offset, align) + size >= UsizeMod

NoAlloc == [size |-> 0, align |-> 1, current_offset |-> 0]

\* FrameAllocator::new (memory.rs:116-127)
MemInit ==
    /\ offset = 0
    /\ alloc_pc = [t \in Threads |-> "idle"]
    /\ alloc_frame = [t \in Threads |-> NoAlloc]
    /\ grants = << >>
    /\ returned = [t \in Threads |-> "none"]

\* FrameAllocator::used (memory.rs:181-183)
used == offset

\* a call of FrameAllocator::alloc(size, align), `align.max(1)` (memory.rs:132-133)
call_alloc(t, size, align) ==
    /\ alloc_pc[t] = "idle"
    /\ Len(grants) < MaxGrants
    /\ alloc_pc' = [alloc_pc EXCEPT ![t] = "load"]
    /\ alloc_frame' = [alloc_frame EXCEPT ![t] =
                          [size |-> size, align |-> IF align > 1 THEN align ELSE 1,
                           current_offset |-> 0]]
    /\ UNCHANGED <<offset, grants, returned>>

\* FrameAllocator::alloc, the load of the offset and the test against the
\* capacity (memory.rs:136-144); an addition that overflows panics when the
\* build has overflow checks and wraps when it has none
alloc_load(t) ==
    /\ alloc_pc[t] = "load"
    /\ LET size == alloc_frame[t].size
           align == alloc_frame[t].align
       IN  IF overflow_checks /\ overflows(offset, align, size)
           THEN /\ returned' = [returned EXCEPT ![t] = "panic"]
                /\ alloc_pc' = [alloc_pc EXCEPT ![t] = "idle"]
                /\ alloc_frame' = [alloc_frame EXCEPT ![t] = NoAlloc]
           ELSE IF new_offset(offset, align, size) > capacity
           THEN /\ returned' = [returned EXCEPT ![t] = "None"]
                /\ alloc_pc' = [alloc_pc EXCEPT ![t] = "idle"]
                /\ alloc_frame' = [alloc_frame EXCEPT ![t] = NoAlloc]
           ELSE /\ alloc_frame' = [alloc_frame EXCEPT ![t].current_offset = offset]
                /\ alloc_pc' = [alloc_pc EXCEPT ![t] = "cas"]
                /\ UNCHANGED returned
    /\ UNCHANGED <<offset, grants>>

\* FrameAllocator::alloc, compare_exchange_weak (memory.rs:147-159): it stores
\* new_offset when the offset is still the one loaded, and it may fail (also
\* spuriously), after which the loop starts again
alloc_cas(t) ==
    /\ alloc_pc[t] = "cas"
    /\ LET size == alloc_frame[t].size
           align == alloc_frame[t].align
           current_offset == alloc_frame[t].current_offset
       IN  \/ /\ offset = current_offset
              /\ offset' = new_offset(current_offset, align, size)
              /\ grants' = Append(grants, [aligned |-> aligned_offset(current_offset, align),
                                           size |-> size])
              /\ returned' = [returned EXCEPT ![t] = "Some"]
              /\ alloc_pc' = [alloc_pc EXCEPT ![t] = "idle"]
              /\ alloc_frame' = [alloc_frame EXCEPT ![t] = NoAlloc]
           \/ /\ alloc_pc' = [alloc_pc EXCEPT ![t] = "load"]
              /\ UNCHANGED <<offset, grants, returned, alloc_frame>>

\* FrameAllocator::reset (memory.rs:175-178), called between frames, when no
\* alloc call is in progress
reset ==
    /\ \A t \in Threads : alloc_pc[t] = "idle"
    /\ offset' = 0
    /\ grants' = << >>
    /\ UNCHANGED <<alloc_pc, alloc_frame, returned>>

----------------------------------------------------------------------------
\* Specifications

\* the thread that owns the JobSystem (it submits and waits); the other threads
\* only call process_jobs
Owner == CHOOSE t \in Threads : \A u \in Threads : t <= u

\* the process_jobs arguments callers pass
MaxJobsArgs == {0, 1}

\* jobs whose body panics, at most
MaxPanics == 1

PanicArgs == {FALSE} \cup {p \in {TRUE} : Cardinality({j \in Handles : jobs[j + 1].panics}) < MaxPanics}

WorldNext ==
    \/ spawn /\ UNCHANGED <<jobVars, sceneVars, memVars>>
    \/ \E e \in EntityArgs : despawn(e) /\ UNCHANGED <<jobVars, sceneVars, memVars>>
    \/ \E e \in EntityArgs, T \in Types, v \in Values :
           add_component(e, T, v) /\ UNCHANGED <<jobVars, sceneVars, memVars>>
    \/ \E e \in EntityArgs, T \in Types, v \in Values :
           get_component_mut(e, T, v) /\ UNCHANGED <<jobVars, sceneVars, memVars>>

ThreadNext ==
    \/ \E t \in Threads, max_jobs \in MaxJobsArgs :
           call_process_jobs(t, max_jobs) /\ UNCHANGED <<worldVars, sceneVars, memVars>>
    \/ \E handle \in Handles : call_wait_for(Owner, handle) /\ UNCHANGED <<worldVars, sceneVars, memVars>>
    \/ call_wait_all(Owner) /\ UNCHANGED <<worldVars, sceneVars, memVars>>
    \/ \E t \in Threads : wait_for_loop(t) /\ UNCHANGED <<worldVars, sceneVars, memVars>>
    \/ \E t \in Threads : wait_all_loop(t) /\ UNCHANGED <<worldVars, sceneVars, memVars>>
    \/ \E t \in Threads : process_jobs_steal(t) /\ UNCHANGED <<worldVars, sceneVars, memVars>>
    \/ \E t \in Threads : process_jobs_check(t) /\ UNCHANGED <<worldVars, sceneVars, memVars>>
    \/ \E t \in Threads : process_jobs_execute(t) /\ UNCHANGED <<worldVars, sceneVars, memVars>>
    \/ \E t \in Threads : process_jobs_store(t) /\ UNCHANGED <<worldVars, sceneVars, memVars>>

SubmitNext ==
    \/ \E priority \in PriorityArgs, panics \in PanicArgs :
           submit(Owner, priority, panics) /\ UNCHANGED <<worldVars, sceneVars, memVars>>
    \/ \E priority \in PriorityArgs, panics \in PanicArgs, dependencies \in SUBSET Handles :
           submit_with_deps(Owner, priority, dependencies, panics) /\ UNCHANGED <<worldVars, sceneVars, memVars>>

GraphNext ==
    \/ \E priority \in PriorityArgs : add_task(priority, FALSE) /\ UNCHANGED <<worldVars, sceneVars, memVars>>
    \/ \E task \in 0 .. MaxJobs, depends_on \in 0 .. MaxJobs :
           add_dependency(task, depends_on) /\ UNCHANGED <<worldVars, sceneVars, memVars>>
    \/ execute(Owner) /\ UNCHANGED <<worldVars, sceneVars, memVars>>

Init == WorldInit /\ JobInit /\ SceneInit /\ MemInit

\* a release build, for the specifications in which no World call is made
JobSpecInit == Init /\ ~overflow_checks

JobNext == SubmitNext \/ ThreadNext

GraphSpecNext == GraphNext \/ ThreadNext

\* the World and its callers
Spec == Init /\ [][WorldNext]_vars

\* the entity records of the World alone, as many as there are index values and
\* one more: spawn, and despawn of the entity spawned last (as in
\* tests::test_entity_recycling, ecs.rs:388-392), no components
IndexNext ==
    \/ spawn_fresh_within(IndexMod + 1) /\ UNCHANGED <<jobVars, sceneVars, memVars>>
    \/ spawn_recycle /\ UNCHANGED <<jobVars, sceneVars, memVars>>
    \/ spawn_overflow_panic /\ UNCHANGED <<jobVars, sceneVars, memVars>>
    \/ last.op = "spawn" /\ last.ok /\ despawn(last.e) /\ UNCHANGED <<jobVars, sceneVars, memVars>>

IndexSpec == Init /\ [][IndexNext]_vars

\* the JobSystem, jobs submitted with submit / submit_with_deps
JobSpec == JobSpecInit /\ [][JobNext]_vars

\* the JobSystem, jobs submitted through a TaskGraphBuilder
GraphSpec == JobSpecInit /\ [][GraphSpecNext]_vars

\* the steps thread t takes inside a call it has made; the scheduler runs every
\* thread that is inside wait_for (std::thread::yield_now, job.rs:240), wait_all
\* or process_jobs again and again
thread_step(t) ==
    /\ \/ wait_for_loop(t)
       \/ wait_all_loop(t)
       \/ process_jobs_steal(t)
       \/ process_jobs_check(t)
       \/ process_jobs_execute(t)
       \/ process_jobs_store(t)
    /\ UNCHANGED <<worldVars, sceneVars, memVars>>

\* the JobSystem of JobSpec, every thread inside a call being scheduled
JobLiveSpec == JobSpecInit /\ [][JobNext]_vars /\ \A t \in Threads : WF_vars(thread_step(t))

\* the JobSystem driven by the one thread that owns it
SingleNext ==
    \/ SubmitNext
    \/ \E max_jobs \in MaxJobsArgs : call_process_jobs(Owner, max_jobs) /\ UNCHANGED <<worldVars, sceneVars, memVars>>
    \/ \E handle \in Handles : call_wait_for(Owner, handle) /\ UNCHANGED <<worldVars, sceneVars, memVars>>
    \/ call_wait_all(Owner) /\ UNCHANGED <<worldVars, sceneVars, memVars>>
    \/ thread_step(Owner)

SingleSpec == JobSpecInit /\ [][SingleNext]_vars

\* the SceneGraph and its callers
SceneNext ==
    \/ \E entity \in SceneEntities :
           add_node(entity) /\ UNCHANGED <<worldVars, jobVars, memVars>>
    \/ \E entity \in SceneEntities :
           remove_node(entity) /\ UNCHANGED <<worldVars, jobVars, memVars>>
    \/ \E child \in SceneEntities, parent \in {None} \cup {Some(p) : p \in SceneEntities} :
           set_parent(child, parent) /\ UNCHANGED <<worldVars, jobVars, memVars>>

SceneSpec == JobSpecInit /\ [][SceneNext]_vars

\* the FrameAllocator and the threads that share it
MemNext ==
    \/ \E t \in Threads, size \in SizeArgs, align \in AlignArgs :
           call_alloc(t, size, align) /\ UNCHANGED <<worldVars, jobVars, sceneVars>>
    \/ \E t \in Threads : alloc_load(t) /\ UNCHANGED <<worldVars, jobVars, sceneVars>>
    \/ \E t \in Threads : alloc_cas(t) /\ UNCHANGED <<worldVars, jobVars, sceneVars>>
    \/ reset /\ UNCHANGED <<worldVars, jobVars, sceneVars>>

MemSpec == Init /\ [][MemNext]_vars

\* the JobSystem of GraphSpec, every thread inside a call being scheduled
GraphLiveSpec ==
    JobSpecInit /\ [][GraphSpecNext]_vars /\ \A t \in Threads : WF_vars(thread_step(t))

\* the JobSystem with jobs that do not panic, some of them submitted with a
\* dependency on the handle of another JobSystem's job
ForeignNext ==
    \/ \E priority \in PriorityArgs : submit(Owner, priority, FALSE) /\ UNCHANGED <<worldVars, sceneVars, memVars>>
    \/ \E priority \in PriorityArgs :
           submit_with_deps(Owner, priority, {foreign}, FALSE) /\ UNCHANGED <<worldVars, sceneVars, memVars>>
    \/ ThreadNext

ForeignLiveSpec ==
    JobSpecInit /\ [][ForeignNext]_vars /\ \A t \in Threads : WF_vars(thread_step(t))

----------------------------------------------------------------------------
\* Claims about the World

\* C1: add_component::<T>(e, v) on an alive entity returns true, the entity then
\* has T, and every other component type it had before the call it still has,
\* with the value get_component returned before the call: the component set
\* after the call is the previous set plus T.
C1_AddComponentKeepsOthers ==
    [][\A e \in EntityValues, T \in Types, v \in Values :
          (is_alive(e) /\ add_component(e, T, v)) =>
              /\ last'.ok
              /\ has_component(e, T)'
              /\ \A U \in Types \ {T} :
                     has_component(e, U) =>
                         /\ has_component(e, U)'
                         /\ get_component(e, U)' = get_component(e, U)]_vars

\* C2: every entry of every archetype's member list is an alive entity, i.e. a
\* despawned entity has been detached from the archetype that owned it.
C2_MembersAreAlive ==
    \A k \in 1 .. Len(archetypes) :
        \A r \in 1 .. Len(archetypes[k].entities) : is_alive(archetypes[k].entities[r])

\* C3: an Entity value for which despawn has returned true is never alive again,
\* and get_component / has_component on it give None / false, whatever spawn,
\* despawn and add_component calls follow.
C3_DespawnedStaysDead ==
    \A e \in despawned :
        /\ ~is_alive(e)
        /\ \A T \in Types : get_component(e, T) = None /\ ~has_component(e, T)

----------------------------------------------------------------------------
\* Claims about the JobSystem and the TaskGraphBuilder

\* the wrapper a thread holds between steal and the store of the completion flag
holding(t) == frame[t].wrapper

\* job j's body has started: it ran (or panicked), or a thread is about to run it
\* after can_execute returned true
started(j) ==
    \/ \E k \in 1 .. Len(log) : log[k] = j
    \/ j \in failed
    \/ \E t \in Threads : pc[t] \in {"pj_execute", "pj_store"} /\ holding(t) = Some(j)

\* C4: a job never starts executing before the completion flag of each of its
\* dependencies is set, so in the order the bodies ran every job comes after
\* all of its dependencies (a chain runs in chain order), for every priority
\* assignment and interleaving of the threads.
C4_DependenciesFirst ==
    /\ \A t \in Threads :
           pc[t] \in {"pj_execute", "pj_store"} =>
               \A dep \in jobs[holding(t)[1] + 1].dependencies : is_complete(dep)
    /\ \A k \in 1 .. Len(log) :
           \A dep \in jobs[log[k] + 1].dependencies : \E m \in 1 .. k - 1 : log[m] = dep

\* C4, witness: job 1 depends on job 0 and has the higher priority; both have run,
\* job 0 first, and both flags are set
C4_ChainRan ==
    /\ job_counter = 2
    /\ jobs[2].dependencies = {0}
    /\ jobs[2].priority > jobs[1].priority
    /\ log = <<0, 1>>
    /\ is_complete(0) /\ is_complete(1)

\* C5: for every edge (task, depends_on) the builder recorded, other than an edge
\* from a task to itself, the depended-on task has finished (its completion flag
\* is set) whenever the dependent task has started, also when depends_on > task.
C5_EdgesOrdered ==
    graph.executed =>
        \A i \in 1 .. Len(graph.tasks) :
            \A k \in 1 .. Len(graph.tasks[i].deps) :
                LET depends_on == graph.tasks[i].deps[k]
                IN  (depends_on # i - 1 /\ started(graph.handles[i])) =>
                        is_complete(graph.handles[depends_on + 1])

\* C6: when a thread takes its next job from the queue and that job is Ready, no
\* Ready job of higher priority is waiting in the queue.
C6_HighestPriorityFirst ==
    [][\A t \in Threads :
          (process_jobs_steal(t) /\ pc'[t] = "pj_check" /\ can_execute(Head(global_queue))) =>
              \A k \in 2 .. Len(global_queue) :
                  can_execute(global_queue[k]) =>
                      jobs[global_queue[k] + 1].priority
                          <= jobs[Head(global_queue) + 1].priority]_vars

\* C7: when wait_all returns, every job submitted before the call has its
\* completion flag set.
C7_WaitAllWaits ==
    [][\A t \in Threads :
          (wait_all_loop(t) /\ pc'[t] = "idle") => \A j \in Handles : is_complete(j)]_vars

\* C8: a job whose body failed has its completion flag set (so that its
\* dependents become Ready).
C8_FailedJobCompletes == \A j \in failed : is_complete(j)

\* what a JobHandle lets its holder observe of the job's outcome (job.rs:42-52):
\* is_complete() alone, id() being the same before and after
HandleOutcome(h) == is_complete(h)

\* C9: the failure of a job is observable through its handle as an outcome
\* distinct from that of a job that succeeded and of a job that is not yet
\* complete, and it does not abort the call of the thread that ran the job.
C9_FailureReported ==
    /\ \A j \in failed : \A h \in Handles \ failed : HandleOutcome(j) # HandleOutcome(h)
    /\ aborted = {}

\* C10: every job body is executed at most once, and exactly once by the time
\* its handle is complete: when the handles of all K submitted jobs are
\* complete, the K bodies have run K times in total.
C10_ExecutedOnce ==
    /\ \A k, m \in 1 .. Len(log) : log[k] = log[m] => k = m
    /\ \A k \in 1 .. Len(log) : log[k] \notin failed
    /\ \A j \in Handles : is_complete(j) => \E k \in 1 .. Len(log) : log[k] = j
    /\ (\A j \in Handles : is_complete(j)) => Len(log) = job_counter

\* C10, witness: two dependency-free jobs, both run and both complete
C10_AllRan ==
    /\ job_counter = 2
    /\ \A j \in Handles : jobs[j + 1].dependencies = {} /\ is_complete(j)
    /\ Len(log) = 2

----------------------------------------------------------------------------
\* Further claims about the World

\* C11: spawn() with a non-empty free list returns the most recently despawned
\* index (the top of the free list) with a generation exactly one greater than
\* the generation of the entity last despawned on that index; with an empty
\* free list it returns the never-used index equal to the number of indices
\* allocated so far, with generation 0.
C11_SpawnResult ==
    [][(spawn /\ last'.ok) =>
          IF free_indices # << >>
          THEN LET index == free_indices[Len(free_indices)]
               IN  /\ last'.e.index = index
                   /\ last'.e.generation = entities[index + 1].generation + 1
          ELSE last'.e = Entity(Len(entities), 0)]_vars

\* C12: for an alive entity e, add_component::<T>(e, v) returns true and
\* get_component::<T>(e) is then Some(v), whatever e held before (an earlier T
\* value is superseded) and whatever else is in the World; the result stays the
\* same over every step that is not an add_component, a get_component_mut or
\* the despawn of e.
C12_AddThenGet ==
    [][\A i \in 1 .. Len(entities), T \in Types :
          LET e == Entity(i - 1, entities[i].generation)
          IN  /\ \A v \in Values :
                     (last'.op = "add_component" /\ is_alive(e) /\ add_component(e, T, v)) =>
                         /\ last'.ok
                         /\ get_component(e, T)' = Some(v)
              /\ (is_alive(e) /\ get_component(e, T) # None) =>
                     \/ get_component(e, T)' = get_component(e, T)
                     \/ despawn(e)
                     \/ \E U \in Types, v \in Values :
                            add_component(e, U, v) \/ get_component_mut(e, U, v)]_vars

\* C12, witness: an entity that was given the value 1 and then the value 2 of the
\* same type; its archetype holds both rows and get_component gives the later one
C12_Superseded ==
    \E e \in EntityValues, T \in Types :
        /\ last = Call("add_component", null, TRUE)
        /\ get_component(e, T) = Some(2)
        /\ LET archetype == archetypes[entities[e.index + 1].archetype_id[1] + 1]
           IN  archetype.entities = <<e, e>> /\ archetype.storages[T] = <<1, 2>>

\* C16: despawn(e) returns true exactly when e was alive before the call. When
\* it returns false (index never allocated, entity already despawned, stale
\* generation, null entity) the World is as before: records, generations, free
\* list, archetypes and row mapping. When it returns true entity_count has
\* decreased by exactly one.
C16_DespawnResult ==
    [][last'.op = "despawn" =>
       \A e \in EntityValues :
          despawn(e) =>
              /\ last'.ok <=> is_alive(e)
              /\ IF last'.ok
                 THEN entity_count' = entity_count - 1
                 ELSE UNCHANGED <<entities, free_indices, next_index, archetypes,
                                  archetype_map, next_archetype_id,
                                  entity_archetype_row>>]_vars

\* C16, witness: a despawn has returned false in a World whose one entity was
\* despawned before
C16_DespawnRefused ==
    /\ last = Call("despawn", null, FALSE)
    /\ Len(entities) = 1 /\ entity_count = 0
    /\ free_indices = <<0>>
    /\ despawned # {}

\* C17: on an entity that is not alive get_component is None and has_component
\* is false for every type, add_component returns false and changes no
\* archetype, column, member list, row mapping or record, and
\* get_component_mut gives None (nothing is written).
C17_DeadEntityRefused ==
    /\ [](\A e \in EntityValues :
              ~is_alive(e) =>
                  \A T \in Types : get_component(e, T) = None /\ ~has_component(e, T))
    /\ [][/\ (/\ last'.op = "add_component"
              /\ \E e \in EntityValues, T \in Types, v \in Values :
                     ~is_alive(e) /\ add_component(e, T, v)) =>
                 /\ ~last'.ok
                 /\ UNCHANGED <<entities, archetypes, archetype_map, next_archetype_id,
                                entity_archetype_row>>
          /\ (/\ last'.op = "get_component_mut"
              /\ \E e \in EntityValues, T \in Types, v \in Values :
                     ~is_alive(e) /\ get_component_mut(e, T, v)) =>
                 /\ ~last'.ok
                 /\ UNCHANGED archetypes]_vars

\* C17, witness: add_component has returned false while the entity alive on a
\* reused index holds a component, so that a stale value of that index exists
C17_StaleRefused ==
    /\ last = Call("add_component", null, FALSE)
    /\ \E i \in 1 .. Len(entities) :
           /\ entities[i].alive
           /\ entities[i].generation = 1
           /\ entities[i].archetype_id # None

\* C20: for every entity e and component type T, has_component::<T>(e) is true
\* exactly when get_component::<T>(e) is Some: both after add_component::<T>
\* on an alive e, neither for an alive entity that holds no T and neither for
\* an entity that is not alive.
C20_HasIffGet ==
    \A e \in EntityValues, T \in Types :
        /\ (has_component(e, T) <=> get_component(e, T) # None)
        /\ (~is_alive(e) => ~has_component(e, T))

\* C20, witness: an alive entity that was given a T (has_component and
\* get_component agree on it), next to an alive entity that never received a
\* component
C20_OneHasOneHasNot ==
    \E e, f \in EntityValues, T \in Types :
        /\ is_alive(e) /\ has_component(e, T) /\ get_component(e, T) # None
        /\ is_alive(f) /\ entities[f.index + 1].archetype_id = None
        /\ \A U \in Types : ~has_component(f, U) /\ get_component(f, U) = None

\* C21: entity_count() is the number of Entity values for which is_alive holds
\* (all of them returned by spawn), i.e. the spawn calls that returned minus the
\* despawn calls that returned true: it is 0 in a new World, a spawn that
\* returns adds one, a despawn that returns true takes one away, and
\* add_component, get_component_mut and failed calls leave it as it is.
C21_EntityCount ==
    /\ [](entity_count = Cardinality({e \in EntityValues : is_alive(e)}))
    /\ [](last.op = "new" => entity_count = 0)
    /\ [][/\ last'.op = "spawn" =>
                 entity_count' = entity_count + (IF last'.ok THEN 1 ELSE 0)
          /\ last'.op = "despawn" =>
                 entity_count' = entity_count - (IF last'.ok THEN 1 ELSE 0)
          /\ last'.op \in {"add_component", "get_component_mut"} =>
                 entity_count' = entity_count]_vars

\* C21, witness: two entities were spawned and one of them despawned, leaving
\* one alive entity on two records
C21_OneOfTwoAlive ==
    /\ last = Call("despawn", null, TRUE)
    /\ Len(entities) = 2
    /\ entity_count = 1
    /\ Len(free_indices) = 1

\* C22: spawn() never returns the null entity: the entity it returns has
\* is_null() false and is alive, for every number of preceding spawns, also
\* when the fresh-index counter reaches the sentinel value.
C22_SpawnNotNull ==
    (last.op = "spawn" /\ last.ok) => (~is_null(last.e) /\ is_alive(last.e))

\* C28: in every archetype each component type has a column, each column is as
\* long as the member list, and row i of a column holds a value that was stored
\* for the entity at position i of the member list: a row and its member appear
\* together in an add_component for that entity, and afterwards the member
\* stays and the value changes only by a write through get_component_mut for it.
C28_ColumnsMatchMembers ==
    /\ [](\A k \in 1 .. Len(archetypes) :
              /\ DOMAIN archetypes[k].storages =
                     {archetypes[k].component_types[n] :
                          n \in 1 .. Len(archetypes[k].component_types)}
              /\ \A T \in DOMAIN archetypes[k].storages :
                     Len(archetypes[k].storages[T]) = Len(archetypes[k].entities))
    /\ [][\A k \in 1 .. Len(archetypes') :
              \A T \in DOMAIN archetypes'[k].storages :
                  \A i \in 1 .. Len(archetypes'[k].storages[T]) :
                      LET e == archetypes'[k].entities[i]
                          v == archetypes'[k].storages[T][i]
                          old == /\ k <= Len(archetypes)
                                 /\ T \in DOMAIN archetypes[k].storages
                                 /\ i <= Len(archetypes[k].storages[T])
                      IN  IF old
                          THEN /\ archetypes[k].entities[i] = e
                               /\ \/ archetypes[k].storages[T][i] = v
                                  \/ get_component_mut(e, T, v) /\ last'.ok
                          ELSE add_component(e, T, v) /\ last'.ok]_vars

\* C28 (witness): an archetype holds the rows of two different entities with
\* different values, the second written through get_component_mut
C28_TwoRowsWritten ==
    /\ last.op = "get_component_mut" /\ last.ok
    /\ \E k \in 1 .. Len(archetypes), T \in Types :
           /\ Len(archetypes[k].entities) = 2
           /\ archetypes[k].entities[1] # archetypes[k].entities[2]
           /\ T \in DOMAIN archetypes[k].storages
           /\ archetypes[k].storages[T][1] # archetypes[k].storages[T][2]
           /\ is_alive(archetypes[k].entities[2])
           /\ get_component(archetypes[k].entities[2], T) = Some(archetypes[k].storages[T][2])

\* the rows entity e occupies: (archetype, row) pairs whose member is e
rows_of(e) ==
    {kr \in (1 .. Len(archetypes)) \X (1 .. MaxAlloc) :
        /\ kr[2] <= Len(archetypes[kr[1]].entities)
        /\ archetypes[kr[1]].entities[kr[2]] = e}

\* C29: every alive entity occupies at most one row in total across all
\* archetypes: add_component removes the row the entity had before, so member
\* lists hold no duplicate and no superseded entry.
C29_AtMostOneRow ==
    \A i \in 1 .. Len(entities) :
        entities[i].alive =>
            Cardinality(rows_of(Entity(i - 1, entities[i].generation))) <= 1

\* C30: for every alive entity with an owning archetype the mapped row exists,
\* lies within the member list and every column, and the member at that row is
\* the entity; and a value get_component::<T>(e) returns for an alive e is the
\* one it returned before the step or the one the step stored for e itself
\* through add_component::<T>(e, _) or get_component_mut::<T>(e), never a value
\* stored for another entity.
C30_OwnValueOnly ==
    /\ [](\A i \in 1 .. Len(entities) :
              (entities[i].alive /\ entities[i].archetype_id # None) =>
                  LET e == Entity(i - 1, entities[i].generation)
                      archetype == archetypes[entities[i].archetype_id[1] + 1]
                  IN  /\ e \in DOMAIN entity_archetype_row
                      /\ entity_archetype_row[e] < Len(archetype.entities)
                      /\ archetype.entities[entity_archetype_row[e] + 1] = e
                      /\ \A T \in DOMAIN archetype.storages :
                             entity_archetype_row[e] < Len(archetype.storages[T]))
    /\ [][\A i \in 1 .. Len(entities'), T \in Types :
            \A e \in {Entity(i - 1, entities'[i].generation)} :
                  (is_alive(e)' /\ get_component(e, T)' # None) =>
                      \/ is_alive(e) /\ get_component(e, T)' = get_component(e, T)
                      \/ /\ last'.op = "add_component"
                         /\ add_component(e, T, get_component(e, T)'[1])
                      \/ /\ last'.op = "get_component_mut"
                         /\ get_component_mut(e, T, get_component(e, T)'[1])]_vars

\* C30 (witness): an alive entity was given a value in the archetype that still
\* holds the row of another, despawned entity with a different value, and
\* get_component returns the entity's own value
C30_ReadsOwnRow ==
    /\ last.op = "add_component" /\ last.ok
    /\ \E k \in 1 .. Len(archetypes), T \in Types :
           /\ Len(archetypes[k].entities) = 2
           /\ archetypes[k].entities[1] # archetypes[k].entities[2]
           /\ archetypes[k].entities[1] \in despawned
           /\ is_alive(archetypes[k].entities[2])
           /\ T \in DOMAIN archetypes[k].storages
           /\ archetypes[k].storages[T][1] # archetypes[k].storages[T][2]
           /\ get_component(archetypes[k].entities[2], T) = Some(archetypes[k].storages[T][2])

\* C31: there is at most one archetype per component-type set, the archetype
\* map gives for a type set the archetype that holds exactly that set, the id
\* it gave once it gives ever after, and the archetype with id k is element k
\* of the archetype list.
C31_ArchetypeIdentity ==
    /\ [](/\ next_archetype_id = Len(archetypes)
          /\ \A k \in 1 .. Len(archetypes) :
                 /\ archetypes[k].id = k - 1
                 /\ archetypes[k].component_types \in DOMAIN archetype_map
                 /\ archetype_map[archetypes[k].component_types] = k - 1
                 /\ \A n \in 1 .. Len(archetypes) :
                        archetypes[n].component_types = archetypes[k].component_types
                            => n = k
          /\ \A types \in DOMAIN archetype_map :
                 /\ archetype_map[types] < Len(archetypes)
                 /\ archetypes[archetype_map[types] + 1].component_types = types
                 /\ archetype_for(types) = archetype_map[types])
    /\ [][\A types \in DOMAIN archetype_map :
              /\ types \in DOMAIN archetype_map'
              /\ archetype_map'[types] = archetype_map[types]
              /\ archetype_for(types)' = archetype_for(types)]_vars

\* C31 (witness): the archetype of one type set was asked for twice and both
\* rows went into the one archetype made for it
C31_LookedUpTwice ==
    /\ last.op = "add_component" /\ last.ok
    /\ Len(archetypes) = 1
    /\ next_archetype_id = 1
    /\ Len(archetypes[1].entities) = 2
    /\ archetype_map[archetypes[1].component_types] = 0

\* C36: the entity spawn returns has no component of any type, also on an
\* index whose previous occupant held components; and an alive entity that has
\* no T gets one only by add_component::<T> on that entity itself.
C36_SpawnedBare ==
    [][/\ (last'.op = "spawn" /\ last'.ok /\ spawn) =>
              \A e \in {last'.e}, T \in Types :
                  ~has_component(e, T)' /\ get_component(e, T)' = None
       /\ last'.op # "spawn" =>
              \A i \in 1 .. Len(entities), T \in Types :
                  \A e \in {Entity(i - 1, entities[i].generation)} :
                      (/\ is_alive(e)
                       /\ ~has_component(e, T) /\ get_component(e, T) = None
                       /\ has_component(e, T)' \/ get_component(e, T)' # None) =>
                          \E v \in Values : add_component(e, T, v)]_vars

\* C36 (witness): spawn has returned a recycled index whose previous occupant
\* has a row with a value in an archetype, and the new entity reads None
C36_RecycledBare ==
    /\ last.op = "spawn" /\ last.ok
    /\ last.e.generation > 0
    /\ is_alive(last.e)
    /\ \E k \in 1 .. Len(archetypes), T \in Types :
           /\ archetypes[k].entities # << >>
           /\ archetypes[k].entities[1].index = last.e.index
           /\ T \in DOMAIN archetypes[k].storages
           /\ get_component(last.e, T) = None
           /\ ~has_component(last.e, T)

\* C37: the free list holds exactly the allocated indices whose record is not
\* alive, each once; the number of entity records is the next fresh index; and
\* spawn never hands out an index on which an entity is alive.
C37_FreeListExact ==
    /\ [](/\ Len(entities) = next_index
          /\ \A k \in 1 .. Len(free_indices) : free_indices[k] < Len(entities)
          /\ \A i \in 1 .. Len(entities) :
                 Cardinality({k \in 1 .. Len(free_indices) : free_indices[k] = i - 1})
                     = IF entities[i].alive THEN 0 ELSE 1)
    /\ [][(last'.op = "spawn" /\ last'.ok /\ spawn) =>
              (last'.e.index < Len(entities) => ~entities[last'.e.index + 1].alive)]_vars

\* C38: spawn never returns an (index, generation) pair it returned before:
\* the generation of a recycled index is greater than the one it had, also at
\* the upper bound of the counter, and the Entity returned is not one that was
\* despawned earlier.
C38_GenerationIncreases ==
    [][(last'.op = "spawn" /\ last'.ok /\ spawn) =>
           /\ last'.e \notin despawned
           /\ last'.e.index < Len(entities) =>
                  last'.e.generation > entities[last'.e.index + 1].generation]_vars

----------------------------------------------------------------------------
\* Further claims about the JobSystem and the TaskGraphBuilder

\* thread t is inside wait_for(h)
waiting_for(t, h) == frame[t].caller = "wait_for" /\ frame[t].handle = h

\* C13: wait_for(handle) returns only in a state where handle.is_complete() is
\* true, and every wait_for call on a handle of this JobSystem does return: a
\* thread inside wait_for(h) is eventually out of it with h complete.
C13_WaitForTerminates ==
    /\ [][\A t \in Threads :
             (wait_for_loop(t) /\ pc'[t] = "idle") => is_complete(frame[t].handle)]_vars
    /\ \A t \in Threads, h \in 0 .. MaxJobs - 1 :
           waiting_for(t, h) ~> (~waiting_for(t, h) /\ h < job_counter /\ completed[h + 1])

\* C14: a job's completion flag is unset when submit / submit_with_deps returns
\* the handle, and once it is set it stays set: it changes at most once, from
\* unset to set.
C14_FlagSetOnce ==
    [][/\ \A j \in Handles : completed[j + 1] => completed'[j + 1]
       /\ \A j \in (0 .. job_counter' - 1) \ Handles : ~completed'[j + 1]]_vars

\* C14, witness: job 0 has run and its flag is set; job 1, submitted as well, is
\* still queued with its flag unset
C14_FlagSet ==
    /\ job_counter = 2
    /\ is_complete(0) /\ ~is_complete(1)
    /\ global_queue = <<1>>

\* C15: add_dependency(task, depends_on) called with an index that is not that
\* of a task already added is rejected or deferred in a way the caller can
\* observe: the call returns an error indication (something other than `()`),
\* or the builder keeps the edge (its task list is not what it was before the
\* call).
C15_BadEdgeReported ==
    [][(graph'.call.op = "add_dependency" /\ ~graph'.call.in_range
            /\ \E task, depends_on \in 0 .. MaxJobs : add_dependency(task, depends_on)) =>
          (graph'.call.ret # "()" \/ tasks' # tasks)]_vars

\* job j is waiting in the global queue
queued(j) == \E k \in 1 .. Len(global_queue) : global_queue[k] = j

\* C18: process_jobs(max) returns exactly the number of job bodies it executed
\* during the call, which is at most max (none for max = 0); every job it has
\* dequeued is either executed and marked complete or put back on the queue
\* (so a submitted job is queued, in a thread's hands, or complete); and it
\* executes only jobs whose dependencies are all complete.
C18_ProcessJobsAccounts ==
    /\ [][\A t \in Threads :
             (process_jobs_steal(t) /\ pc'[t] # "pj_check") =>
                 /\ frame[t].processed = frame[t].ran
                 /\ frame[t].processed <= frame[t].max_jobs]_vars
    /\ [](\A j \in Handles :
              queued(j) \/ is_complete(j) \/ \E t \in Threads : holding(t) = Some(j))
    /\ [](\A t \in Threads :
              pc[t] \in {"pj_execute", "pj_store"} => can_execute(holding(t)[1]))

\* two jobs of equal priority, j1 submitted before j2, both Ready when submitted
ready_pair(j1, j2) ==
    /\ j1 < j2
    /\ jobs[j1 + 1].priority = jobs[j2 + 1].priority
    /\ jobs[j1 + 1].ready /\ jobs[j2 + 1].ready

C23_ReadyNotRequeued ==
    [][\A t \in Threads :
          (process_jobs_check(t) /\ jobs[holding(t)[1] + 1].ready) =>
              /\ pc'[t] = "pj_execute"
              /\ global_queue' = global_queue]_vars

\* C23, witness: job 1 was submitted with the already complete job 0 as its
\* dependency and has run
C23_ReadyWithDepsRan ==
    /\ job_counter = 2
    /\ jobs[2].dependencies = {0} /\ jobs[2].ready
    /\ log = <<0, 1>>
    /\ is_complete(1)

\* the body of job j has run to its end
ran(j) == \E k \in 1 .. Len(log) : log[k] = j

\* the bodies of tests::test_job_dependencies (job.rs:410-425) applied to the
\* shared value v: job 0 stores 10, job 1 loads the value and stores its double;
\* any further job leaves the value alone
body(j, v) == IF j = 0 THEN 10 ELSE IF j = 1 THEN v * 2 ELSE v

\* the shared value (0 at first, job.rs:406) after the bodies of l ran in that order
RECURSIVE value_after(_)
value_after(l) == IF l = << >> THEN 0 ELSE body(l[Len(l)], value_after(PopBack(l)))

\* C24: handle.is_complete() is true only after the job's body has run to its
\* end (the flag is set in a step after the one in which the body ended), and a
\* dependent job starts only after the body of each of its dependencies has run
\* to its end. With job 0 storing 10 and job 1, depending on job 0, doubling the
\* value, the value is 20 whenever wait_for(job 1) returns.
C24_CompleteAfterBody ==
    /\ [](\A j \in Handles : is_complete(j) => ran(j))
    /\ [](\A t \in Threads :
              pc[t] = "pj_execute" => \A dep \in jobs[holding(t)[1] + 1].dependencies : ran(dep))
    /\ [][/\ \A j \in Handles : (~completed[j + 1] /\ completed'[j + 1]) => ran(j)
          /\ \A t \in Threads :
                 (/\ wait_for_loop(t) /\ pc'[t] = "idle"
                  /\ frame[t].handle = 1 /\ jobs[2].dependencies = {0}) =>
                     value_after(log) = 20]_vars

\* C24, witness: job 1 was submitted depending on the not yet complete job 0,
\* both bodies have run, job 1 is complete and the value is 20
C24_Doubled ==
    /\ job_counter = 2
    /\ jobs[2].dependencies = {0} /\ ~jobs[2].ready
    /\ is_complete(1)
    /\ value_after(log) = 20

\* C25: whenever no JobSystem operation is in progress, pending_jobs() is the
\* number of jobs submitted and not yet completed; so it is 0 on a new
\* JobSystem and 0 again once every submitted job has completed.
C25_PendingJobs ==
    (\A t \in Threads : pc[t] = "idle") =>
        pending_jobs = Cardinality({j \in Handles : ~is_complete(j)})

\* C26: every submitted job whose dependencies are complete (and whose body
\* does not fail) is eventually executed and its handle eventually complete,
\* whether or not a caller's thread ever calls process_jobs, wait_for or
\* wait_all: the worker threads of the JobSystem run it.
C26_WorkersRunJobs ==
    \A j \in 0 .. MaxJobs - 1 :
        (j < job_counter /\ can_execute(j) /\ ~jobs[j + 1].panics)
            ~> (j < job_counter /\ completed[j + 1])

\* C27: add_task returns the number of tasks added before it, add_dependency
\* leaves every task at the position add_task returned for it, and execute
\* returns one handle per task, handles[i] being the handle of the job made from
\* the task numbered i, complete only once that job's body has run.
C27_StablePositions ==
    /\ \A i \in 1 .. Len(tasks) : tasks[i].index = i - 1
    /\ graph.executed =>
           /\ Len(graph.handles) = Len(graph.tasks)
           /\ \A i \in 1 .. Len(graph.tasks) :
                  LET h == graph.handles[i]
                  IN  /\ graph.tasks[i].index = i - 1
                      /\ h \in Handles
                      /\ jobs[h + 1].priority = graph.tasks[i].priority
                      /\ jobs[h + 1].panics = graph.tasks[i].panics
                      /\ is_complete(h) => ran(h)
                      /\ \A k \in 1 .. Len(graph.tasks) : graph.handles[k] = h => k = i

\* C27 (witness): two tasks of different priority with an edge between them were
\* executed and both handles are complete
C27_TwoTasksComplete ==
    /\ graph.executed
    /\ Len(graph.tasks) = 2
    /\ graph.tasks[1].priority # graph.tasks[2].priority
    /\ graph.tasks[2].deps = <<0>>
    /\ is_complete(graph.handles[1]) /\ is_complete(graph.handles[2])

\* C32: every call process_jobs(max) terminates: a thread inside a process_jobs
\* call it made itself is eventually out of it, also when the queue holds only
\* jobs whose dependencies nothing will complete.
C32_ProcessJobsTerminates ==
    \A t \in Threads : (frame[t].caller = "process_jobs") ~> (frame[t].caller = "none")

\* the number of times the body of job j ran
runs(j) == Cardinality({k \in 1 .. Len(log) : log[k] = j})

C34_SubmissionOrder ==
    /\ [](\A k \in 1 .. Len(log) :
              /\ \A n \in 1 .. k - 1 : log[n] < log[k]
              /\ \A j \in 0 .. log[k] - 1 : ran(j) \/ j \in failed)
    /\ [][/\ process_jobs_check(Owner) => pc'[Owner] = "pj_execute"
          /\ \A h \in Handles :
                 /\ (waiting_for(Owner, h) /\ Len(log') > Len(log)) => log'[Len(log')] <= h
                 /\ (waiting_for(Owner, h) /\ wait_for_loop(Owner) /\ pc'[Owner] = "idle") =>
                        \A j \in 0 .. h : ran(j)]_vars

\* how far job j has come: 0 Pending, 1 Ready, 2 Executing, 3 Completed
phase(j) ==
    IF completed[j + 1] THEN 3
    ELSE IF \E t \in Threads : pc[t] \in {"pj_execute", "pj_store"} /\ holding(t) = Some(j) THEN 2
    ELSE IF can_execute(j) THEN 1
    ELSE 0

\* C35: every submitted job is in exactly one place: once in the global queue,
\* or held by exactly one thread that dequeued it, or completed; and its state
\* only moves forward, Pending -> Ready -> Executing -> Completed.
C35_OnePlaceForward ==
    /\ [](\A j \in Handles :
              Cardinality({k \in 1 .. Len(global_queue) : global_queue[k] = j})
                  + Cardinality({t \in Threads : holding(t) = Some(j)})
                  + (IF completed[j + 1] THEN 1 ELSE 0) = 1)
    /\ [][\A j \in Handles : phase(j)' >= phase(j)]_vars

----------------------------------------------------------------------------
\* Claims about the SceneGraph and the FrameAllocator

\* C39: after any sequence of add_node, set_parent and remove_node the
\* hierarchy is consistent: a node c has parent Some(p) exactly when p is a
\* node whose children list contains c, and roots holds exactly the nodes whose
\* parent is None, each once.
C39_HierarchyConsistent ==
    /\ \A c \in DOMAIN nodes, p \in SceneEntities :
           nodes[c].parent = Some(p) <=> (p \in DOMAIN nodes /\ Contains(nodes[p].children, c))
    /\ \A e \in SceneEntities :
           Cardinality({k \in 1 .. Len(roots) : roots[k] = e})
               = IF e \in DOMAIN nodes /\ nodes[e].parent = None THEN 1 ELSE 0

\* C40: between two resets every range alloc returned lies within the block
\* and is disjoint from every other range returned, used() does not exceed the
\* capacity, and no call ends otherwise than with a pointer or with None.
C40_RangesDisjoint ==
    /\ used <= capacity
    /\ \A t \in Threads : returned[t] # "panic"
    /\ \A i \in 1 .. Len(grants) :
           /\ grants[i].aligned + grants[i].size <= capacity
           /\ \A k \in 1 .. Len(grants) :
                  k # i => \/ grants[i].aligned + grants[i].size <= grants[k].aligned
                           \/ grants[k].aligned + grants[k].size <= grants[i].aligned

====
